---- MODULE Spec2Model ----
(***************************************************************************)
(* Model of src/main.js: the Arc application object of arc-electron.       *)
(* The Electron event loop delivers one event at a time; every handler     *)
(* runs to completion, so each handler is one action.  The only handler    *)
(* that spans two turns of the loop is _readyHandler, which awaits         *)
(* prepareEnvironment() and continues in promise callbacks.                *)
(*                                                                         *)
(* Every call a handler makes on a collaborator is recorded, in order, in  *)
(* lastCalls (the calls of the handler that ran last) and, for the ready   *)
(* handler, also in readyCalls (all its calls, over both turns).           *)
(***************************************************************************)
EXTENDS Integers, Sequences, FiniteSets, TLC

VARIABLES
  argv,        \* process.argv, fixed at process start
  platform,    \* process.platform, fixed at process start
  readyPc,     \* position of _readyHandler: "idle", "awaiting", "done"
  prepResult,  \* outcome of prepareEnvironment(): "none", "ok", "error"
  readyCalls,  \* calls made so far by _readyHandler and its callbacks
  nWindows,    \* number of windows the window manager has open
  srv,         \* per window: ContentSearchService instances and open flag
  quitting,    \* TRUE once app.quit() has been called
  last,        \* the event whose handler ran last
  lastCalls,   \* the calls that handler made, in order
  repeated     \* TRUE iff `last` equals the event handled just before it

vars == <<argv, platform, readyPc, prepResult, readyCalls, nWindows, srv,
          quitting, last, lastCalls, repeated>>

(***************************************************************************)
(* Bounds of the model.                                                    *)
(***************************************************************************)
\* The most windows the window manager is let to hold open.
MaxWindows == 2

\* BrowserWindow handles the menu passes as the source window of an action.
WinIds == {"w1", "w2"}

(***************************************************************************)
(* JavaScript string primitives used by the source.                        *)
(***************************************************************************)
\* String.prototype.substr(start): the characters from index start (0-based).
Substr(s, start) == SubSeq(s, start + 1, Len(s))

\* String.prototype.indexOf(t): the first 0-based index of t in s, or -1.
IndexOf(s, t) ==
  LET hits == {i \in 0..(Len(s) - Len(t)) : SubSeq(s, i + 1, i + Len(t)) = t}
  IN  IF hits = {} THEN -1
      ELSE CHOOSE i \in hits : \A j \in hits : i <= j

\* String.prototype.split(sep) for a one-character separator.
RECURSIVE Split(_, _)
Split(s, sep) ==
  LET i == IndexOf(s, sep)
  IN  IF i = -1 THEN <<s>>
      ELSE <<SubSeq(s, 1, i)>> \o Split(Substr(s, i + 1), sep)

\* parts[i] of a JavaScript array (0-based); a missing element is undefined,
\* which string concatenation renders as the text "undefined".
ElemText(parts, i) ==
  IF i + 1 \in DOMAIN parts THEN parts[i + 1] ELSE "undefined"


(***************************************************************************)
(* Inputs the environment may supply.                                      *)
(***************************************************************************)
\* process.argv: a plain start and two starts under the inspector.
Argvs ==
  { <<"electron", ".">>,
    <<"electron", "--inspect=5858", ".">>,
    <<"electron", ".", "--js-flags=--inspect">> }

Platforms == {"darwin", "linux"}

\* What win.webContents.getURL() may return: the application page, and the
\* search bar page (whose URL contains `search-bar`, not at index 0).
URLs == {"file:///app/app.html", "file:///app/search-bar.html"}

\* URLs the operating system may hand to the open-url handler.
OpenUrls ==
  { "arc-file://drive/open/abc123",
    "arc-file://drive/create/f1",
    "arc-file://drive/open/a/b",
    "arc-file://drive/open",
    "arc-file://drive",
    "arc-file://unknown/x/y",
    "arc-file://drives/open/x",
    "arc-file://" }

\* The commands of the switch in _handleApplicationAction.
ForwardedCommands ==
  { "open-saved", "open-history", "open-drive", "open-messages",
    "show-settings", "about", "open-license", "import-data", "export-data",
    "login-external-webservice", "open-cookie-manager", "open-hosts-editor",
    "open-themes" }

HelpCommands ==
  { "open-privacy-policy", "open-documentation", "open-faq",
    "open-discussions", "report-issue", "search-issues", "web-session-help" }

\* Action identifiers the menu may emit: every command of the switch under
\* the `application-` prefix, and identifiers the switch does not know.
ActionIds ==
  {"application-" \o c : c \in ForwardedCommands \cup HelpCommands}
    \cup { "application-quit", "application-new-window",
           "application-task-manager", "application-find" }
    \cup { "application-quitx", "application-qui", "application-open",
           "application-find-next", "application-", "application",
           "applicationXquit", "applications-about", "requests-foo",
           "requestXquit", "window-close", "app-quit", "" }
    \cup { "request-quit", "request-new-window", "request-find",
           "request-export-data", "request-", "request" }

\* The identifiers the menu emits in the specification of the whole
\* lifecycle, RouterSpec below routing all of ActionIds.
CoreActionIds ==
  { "application-quit", "application-new-window", "application-find",
    "application-about", "request-quit", "window-close" }

(***************************************************************************)
(* isDebug()                                                               *)
(***************************************************************************)
IsDebugAtStart(args) ==
  \E i \in DOMAIN args : IndexOf(args[i], "--inspect") = 0

IsDebug(args) ==
  \E i \in DOMAIN args : IndexOf(args[i], "--inspect") # -1

(***************************************************************************)
(* The calls each handler makes, in order.  A call is a tuple of strings:  *)
(* the callee, then its arguments and, for a query, the value returned.    *)
(***************************************************************************)
\* The open-url listener of _registerProtocols.
OpenUrlCallsShifted(url) ==
  LET fileData == Substr(url, 11)
      parts == Split(fileData, "/")
  IN  << <<"event.preventDefault">> >>
        \o IF parts[1] = "drive"
           THEN << <<"wm.open", "/request/drive/" \o ElemText(parts, 0)
                                   \o "/" \o ElemText(parts, 1)>> >>
           ELSE <<>>

OpenUrlCallsValidated(url) ==
  LET fileData == Substr(url, 11)
      parts == Split(fileData, "/")
  IN  << <<"event.preventDefault">> >>
        \o IF parts[1] = "drive" /\ Len(parts) >= 3
           THEN << <<"wm.open", "/request/drive/" \o ElemText(parts, 1)
                                   \o "/" \o ElemText(parts, 2)>> >>
           ELSE <<>>

OpenUrlCallsPreventInCase(url) ==
  LET fileData == Substr(url, 11)
      parts == Split(fileData, "/")
  IN  IF parts[1] = "drive"
      THEN << <<"event.preventDefault">>,
              <<"wm.open", "/request/drive/" \o ElemText(parts, 1)
                             \o "/" \o ElemText(parts, 2)>> >>
      ELSE <<>>

OpenUrlCalls(url) ==
  LET fileData == Substr(url, 11)
      parts == Split(fileData, "/")
  IN  << <<"event.preventDefault">> >>
        \o IF parts[1] = "drive"
           THEN << <<"wm.open", "/request/drive/" \o ElemText(parts, 1)
                                   \o "/" \o ElemText(parts, 2)>> >>
           ELSE <<>>

\* _readyHandler up to the pending promise.
ReadyCalls == << <<"defaults.prepareEnvironment">> >>

\* The .catch callback of _readyHandler.
CatchCalls ==
  << <<"log.error", "Unable to prepare the environment.", "cause.message">>,
     <<"log.error", "cause">> >>

\* The .then callback of _readyHandler, in a process started with argv = args.
ThenCallsBuildLast(args) ==
  << <<"ArcIdentity.listen">>, <<"wm.listen">>, <<"prompts.listen">>,
     <<"us.listen">>, <<"gdrive.listen">>, <<"wm.open">> >>
    \o (IF ~IsDebug(args) THEN << <<"us.start">> >> ELSE <<>>)
    \o << <<"sm.start">>, <<"menu.build">> >>

ThenCalls(args) ==
  << <<"ArcIdentity.listen">>, <<"wm.listen">>, <<"prompts.listen">>,
     <<"us.listen">>, <<"gdrive.listen">>, <<"wm.open">> >>
    \o (IF ~IsDebug(args) THEN << <<"us.start">> >> ELSE <<>>)
    \o << <<"menu.build">>, <<"sm.start">> >>

\* What runs when prepareEnvironment() rejects: .catch, then .then.
RejectedCallsNoThen(args) == CatchCalls

RejectedCalls(args) == CatchCalls \o ThenCalls(args)

\* _allClosedHandler on process.platform = plat.
AllClosedCallsAlways(plat) == << <<"app.quit">> >>

AllClosedCalls(plat) ==
  IF plat # "darwin" THEN << <<"app.quit">> >> ELSE <<>>

\* _activateHandler, with hasWindow the value of this.wm.hasWindow.
ActivateCallsAlways(hasWindow) == << <<"wm.open">> >>

ActivateCalls(hasWindow) ==
  IF ~hasWindow THEN << <<"wm.open">> >> ELSE <<>>

\* The `find` case of _handleApplicationAction.  url is what
\* win.webContents.getURL() returns; service is the state of the window's
\* search service: [count |-> instances registered, opened |-> isOpened()].
FindCallsUrlAtStart(win, url, service) ==
  << <<"win.webContents.getURL", win, url>> >>
    \o IF IndexOf(url, "search-bar") = 0 THEN <<>>
       ELSE IF service.count > 0
       THEN << <<"ContentSearchService.getService", win, "found">> >>
              \o IF service.opened
                 THEN << <<"srv.isOpened", win, "true">>,
                         <<"srv.focus", win>> >>
                 ELSE << <<"srv.isOpened", win, "false">>,
                         <<"srv.open", win>> >>
       ELSE << <<"ContentSearchService.getService", win, "none">>,
               <<"new ContentSearchService", win>>, <<"srv.open", win>> >>

FindCallsNoOpenedCheck(win, url, service) ==
  << <<"win.webContents.getURL", win, url>> >>
    \o IF IndexOf(url, "search-bar") # -1 THEN <<>>
       ELSE << <<"ContentSearchService.getService", win,
                 IF service.count > 0 THEN "found" ELSE "none">>,
               <<"new ContentSearchService", win>>, <<"srv.open", win>> >>

FindCallsReconstruct(win, url, service) ==
  << <<"win.webContents.getURL", win, url>> >>
    \o IF IndexOf(url, "search-bar") # -1 THEN <<>>
       ELSE IF service.count > 0 /\ service.opened
       THEN << <<"ContentSearchService.getService", win, "found">>,
               <<"srv.isOpened", win, "true">>, <<"srv.focus", win>> >>
       ELSE << <<"ContentSearchService.getService", win,
                 IF service.count > 0 THEN "found" ELSE "none">>,
               <<"new ContentSearchService", win>>, <<"srv.open", win>> >>

FindCalls(win, url, service) ==
  << <<"win.webContents.getURL", win, url>> >>
    \o IF IndexOf(url, "search-bar") # -1 THEN <<>>
       ELSE IF service.count > 0
       THEN << <<"ContentSearchService.getService", win, "found">> >>
              \o IF service.opened
                 THEN << <<"srv.isOpened", win, "true">>,
                         <<"srv.focus", win>> >>
                 ELSE << <<"srv.isOpened", win, "false">>,
                         <<"srv.open", win>> >>
       ELSE << <<"ContentSearchService.getService", win, "none">>,
               <<"new ContentSearchService", win>>, <<"srv.open", win>> >>

\* _handleApplicationAction(action, win).
HandleApplicationActionPrefix(action, win, url, service) ==
  CASE IndexOf(action, "quit") = 0 -> << <<"app.quit">> >>
    [] action \in ForwardedCommands ->
         << <<"win.webContents.send", win, "command", action>> >>
    [] action = "new-window" -> << <<"wm.open">> >>
    [] action \in HelpCommands -> << <<"HelpManager.helpWith", action>> >>
    [] action = "task-manager" -> << <<"wm.openTaskManager">> >>
    [] action = "find" -> FindCalls(win, url, service)
    [] OTHER -> <<>>

HandleApplicationActionFullId(action, win, url, service) ==
  CASE action = "quit" -> << <<"app.quit">> >>
    [] action \in ForwardedCommands ->
         << <<"win.webContents.send", win, "command",
              "application-" \o action>> >>
    [] action = "new-window" -> << <<"wm.open">> >>
    [] action \in HelpCommands -> << <<"HelpManager.helpWith", action>> >>
    [] action = "task-manager" -> << <<"wm.openTaskManager">> >>
    [] action = "find" -> FindCalls(win, url, service)
    [] OTHER -> <<>>

HandleApplicationAction(action, win, url, service) ==
  LET windowCommand == "command"
  IN  CASE action = "quit" -> << <<"app.quit">> >>
        [] action \in ForwardedCommands ->
             << <<"win.webContents.send", win, windowCommand, action>> >>
        [] action = "new-window" -> << <<"wm.open">> >>
        [] action \in HelpCommands ->
             << <<"HelpManager.helpWith", action>> >>
        [] action = "task-manager" -> << <<"wm.openTaskManager">> >>
        [] action = "find" -> FindCalls(win, url, service)
        [] OTHER -> <<>>

\* _menuHandler(action, win).
MenuHandlerRouteRequest(action, win, url, service) ==
  IF IndexOf(action, "application") = 0
  THEN HandleApplicationAction(Substr(action, 12), win, url, service)
  ELSE IF IndexOf(action, "request") = 0
  THEN HandleApplicationAction(Substr(action, 8), win, url, service)
  ELSE <<>>

MenuHandler(action, win, url, service) ==
  IF IndexOf(action, "application") = 0
  THEN HandleApplicationAction(Substr(action, 12), win, url, service)
  ELSE IF IndexOf(action, "request") = 0
  THEN << <<"win.webContents.send", win, "request-action",
            Substr(action, 8)>> >>
  ELSE <<>>

(***************************************************************************)
(* The collaborators' state, as far as the handlers read or change it.     *)
(***************************************************************************)
\* How many calls of `calls` are calls of `callee`.
CountCalls(calls, callee) ==
  Cardinality({i \in DOMAIN calls : calls[i][1] = callee})

Calls(calls) == {calls[i] : i \in DOMAIN calls}

\* The window manager: every open() adds a window; hasWindow tells whether
\* one is open.
HasWindow == nWindows > 0

WindowsAfter(calls) == nWindows + CountCalls(calls, "wm.open")

\* The Content Search Service registry: the constructor registers an
\* instance for its window, open() makes isOpened() true, focus() changes
\* neither.
NoService == [count |-> 0, opened |-> FALSE]

ServicesAfter(calls) ==
  [w \in WinIds |->
     [count  |-> srv[w].count
                   + (IF <<"new ContentSearchService", w>> \in Calls(calls)
                      THEN 1 ELSE 0),
      opened |-> srv[w].opened \/ <<"srv.open", w>> \in Calls(calls)]]

\* app.quit() asks Electron to terminate; the handlers still queued run.
QuittingAfter(calls) == quitting \/ <<"app.quit">> \in Calls(calls)

(***************************************************************************)
(* One turn of the event loop: the handler of event ev runs to completion, *)
(* making `calls`.                                                         *)
(***************************************************************************)
Turn(ev, calls) ==
  /\ WindowsAfter(calls) <= MaxWindows
  /\ nWindows' = WindowsAfter(calls)
  /\ srv' = ServicesAfter(calls)
  /\ quitting' = QuittingAfter(calls)
  /\ last' = ev
  /\ lastCalls' = calls
  /\ repeated' = (ev = last)
  /\ UNCHANGED <<argv, platform>>

Init ==
  /\ argv \in Argvs
  /\ platform \in Platforms
  /\ readyPc = "idle"
  /\ prepResult = "none"
  /\ readyCalls = <<>>
  /\ nWindows = 0
  /\ srv = [w \in WinIds |-> NoService]
  /\ quitting = FALSE
  /\ last = <<"constructed">>
  /\ lastCalls = <<>>
  /\ repeated = FALSE

\* app `ready`: _readyHandler starts prepareEnvironment() and returns.
Ready ==
  /\ readyPc = "idle"
  /\ readyPc' = "awaiting"
  /\ readyCalls' = readyCalls \o ReadyCalls
  /\ UNCHANGED prepResult
  /\ Turn(<<"ready">>, ReadyCalls)

\* prepareEnvironment() resolves: the .then callback runs.
PrepareResolved ==
  /\ readyPc = "awaiting"
  /\ readyPc' = "done"
  /\ prepResult' = "ok"
  /\ readyCalls' = readyCalls \o ThenCalls(argv)
  /\ Turn(<<"prepare-resolved">>, ThenCalls(argv))

\* prepareEnvironment() rejects: the .catch callback runs, then .then.
PrepareRejected ==
  /\ readyPc = "awaiting"
  /\ readyPc' = "done"
  /\ prepResult' = "error"
  /\ readyCalls' = readyCalls \o RejectedCalls(argv)
  /\ Turn(<<"prepare-rejected">>, RejectedCalls(argv))

\* app `activate`, emitted once the application runs.
Activate ==
  /\ readyPc # "idle"
  /\ Turn(<<"activate">>, ActivateCalls(HasWindow))
  /\ UNCHANGED <<readyPc, prepResult, readyCalls>>

\* app `open-url`, which the system may emit before `ready` too.
OpenUrl ==
  \E url \in OpenUrls :
    /\ Turn(<<"open-url", url>>, OpenUrlCalls(url))
    /\ UNCHANGED <<readyPc, prepResult, readyCalls>>

\* A window closes while another stays open: no handler of main.js runs.
WindowClosed ==
  /\ nWindows > 1
  /\ nWindows' = nWindows - 1
  /\ last' = <<"window-closed">>
  /\ lastCalls' = <<>>
  /\ repeated' = (last = <<"window-closed">>)
  /\ UNCHANGED <<argv, platform, readyPc, prepResult, readyCalls, srv,
                 quitting>>

\* The last window closes: app `window-all-closed`, _allClosedHandler.
AllClosed ==
  /\ nWindows = 1
  /\ nWindows' = 0
  /\ srv' = ServicesAfter(AllClosedCalls(platform))
  /\ quitting' = QuittingAfter(AllClosedCalls(platform))
  /\ last' = <<"window-all-closed">>
  /\ lastCalls' = AllClosedCalls(platform)
  /\ repeated' = (last = <<"window-all-closed">>)
  /\ UNCHANGED <<argv, platform, readyPc, prepResult, readyCalls>>

\* menu `menu-action`, emitted by the menu that menu.build() installed.
MenuActionOf(ids) ==
  /\ readyPc = "done"
  /\ \E action \in ids, win \in WinIds :
       \E calls \in {MenuHandler(action, win, url, srv[win]) : url \in URLs} :
         Turn(<<"menu-action", action, win>>, calls)
  /\ UNCHANGED <<readyPc, prepResult, readyCalls>>

CoreMenuAction == MenuActionOf(CoreActionIds)

MenuAction == MenuActionOf(ActionIds)

\* The user closes the search bar of window win.
SearchClosed ==
  \E win \in WinIds :
    /\ srv[win].opened
    /\ srv' = [srv EXCEPT ![win].opened = FALSE]
    /\ last' = <<"search-closed", win>>
    /\ lastCalls' = <<>>
    /\ repeated' = FALSE
    /\ UNCHANGED <<argv, platform, readyPc, prepResult, readyCalls, nWindows,
                   quitting>>

Next ==
  \/ Ready
  \/ PrepareResolved
  \/ PrepareRejected
  \/ Activate
  \/ OpenUrl
  \/ WindowClosed
  \/ AllClosed
  \/ CoreMenuAction
  \/ SearchClosed

Spec == Init /\ [][Next]_vars

(***************************************************************************)
(* The router alone: a start on one platform whose preparation succeeds,   *)
(* and then the menu emitting every identifier of ActionIds.               *)
(***************************************************************************)
RouterInit ==
  /\ Init
  /\ argv = <<"electron", ".">>
  /\ platform = "linux"

RouterNext ==
  \/ Ready
  \/ PrepareResolved
  \/ MenuAction
  \/ SearchClosed

RouterSpec == RouterInit /\ [][RouterNext]_vars

(***************************************************************************)
(* Properties.                                                             *)
(***************************************************************************)
PrepareCall == <<"defaults.prepareEnvironment">>

ListenCalls ==
  { <<"ArcIdentity.listen">>, <<"wm.listen">>, <<"prompts.listen">>,
    <<"us.listen">>, <<"gdrive.listen">> }

\* The positions of call c among the ready handler's calls.
Pos(c) == {i \in DOMAIN readyCalls : readyCalls[i] = c}

\* C1: in every execution of the ready handler prepareEnvironment is called
\* before any of the five listen() calls, menu build() comes after all five
\* listen() calls, and menu build() strictly precedes session-manager
\* start(); a ready sequence that has completed has made both calls.
C1_ReadyOrder ==
  /\ \A l \in ListenCalls : \A i \in Pos(l) :
       \E p \in Pos(PrepareCall) : p < i
  /\ \A b \in Pos(<<"menu.build">>) : \A l \in ListenCalls :
       Pos(l) # {} /\ \A i \in Pos(l) : i < b
  /\ \A t \in Pos(<<"sm.start">>) :
       Pos(<<"menu.build">>) # {} /\ \A b \in Pos(<<"menu.build">>) : b < t
  /\ readyPc = "done" =>
       Pos(<<"menu.build">>) # {} /\ Pos(<<"sm.start">>) # {}

C1_Witness ==
  /\ readyPc = "done"
  /\ Pos(<<"menu.build">>) # {}
  /\ Pos(<<"sm.start">>) # {}

\* The steps of the startup chain, as the specification lists them, for a
\* process that runs under the inspector (debug) or does not.
StartupSteps(debug) ==
  << <<"ArcIdentity.listen">>, <<"wm.listen">>, <<"prompts.listen">>,
     <<"us.listen">>, <<"gdrive.listen">>, <<"wm.open">> >>
    \o (IF debug THEN <<>> ELSE << <<"us.start">> >>)
    \o << <<"menu.build">>, <<"sm.start">> >>

IsStartupStep(c) == c # PrepareCall /\ c[1] # "log.error"

\* C2: when prepareEnvironment fails the failure is logged (message and
\* detail, right after the one prepareEnvironment call, which is not
\* repeated), and the ready sequence then makes exactly the calls it makes
\* after a successful preparation, in the same order.
C2_FailedPrepareContinues ==
  readyPc = "done" =>
    /\ CountCalls(readyCalls, "defaults.prepareEnvironment") = 1
    /\ readyCalls[1] = PrepareCall
    /\ SelectSeq(readyCalls, IsStartupStep) = StartupSteps(IsDebug(argv))
    /\ prepResult = "ok" =>
         CountCalls(readyCalls, "log.error") = 0
    /\ prepResult = "error" =>
         /\ CountCalls(readyCalls, "log.error") = 2
         /\ readyCalls[2][1] = "log.error"
         /\ readyCalls[3][1] = "log.error"

C2_Witness ==
  /\ readyPc = "done"
  /\ prepResult = "error"
  /\ <<"sm.start">> \in Calls(readyCalls)

\* C3: no handler of an OS event or menu action (activate, open-url,
\* window-all-closed, menu-action) runs between the start of
\* prepareEnvironment and the run of the startup chain: while the ready
\* handler awaits, the handler that ran last is the ready handler itself.
C3_NoHandlerWhileAwaiting ==
  readyPc = "awaiting" => last = <<"ready">>

\* C4: an activate signal received while the window manager has no open
\* window makes exactly one wm.open() call and no other; one received while
\* a window is open makes no call and changes no state.
C4_Activate ==
  [][ last' = <<"activate">> =>
        IF nWindows = 0
        THEN /\ lastCalls' = << <<"wm.open">> >>
             /\ nWindows' = 1
        ELSE /\ lastCalls' = <<>>
             /\ UNCHANGED <<argv, platform, readyPc, prepResult, readyCalls,
                            nWindows, srv, quitting>> ]_vars

C4_Witness ==
  /\ last = <<"activate">>
  /\ lastCalls = << <<"wm.open">> >>
  /\ nWindows = 1

IsQuitAction(ev) ==
  /\ ev[1] = "menu-action"
  /\ ev[2] = "application-quit"

\* C5: a quit action routed twice in succession requests termination once:
\* the second `application-quit` makes no app.quit() call.
C5_QuitOnce ==
  (IsQuitAction(last) /\ repeated) => <<"app.quit">> \notin Calls(lastCalls)

\* The namespace of an action identifier: the text before its first `-`.
Namespace(action) ==
  LET i == IndexOf(action, "-")
  IN  IF i = -1 THEN action ELSE SubSeq(action, 1, i)

\* C6: routing an action whose namespace is neither `application` nor
\* `request` is a no-op: the handler makes no call at all (no window event,
\* no collaborator call, no app.quit()).
C6_OtherNamespaceNoOp ==
  (last[1] = "menu-action"
     /\ Namespace(last[2]) \notin {"application", "request"})
    => lastCalls = <<>>

\* The commands of the Application Action Table of the specification.
TableCommands ==
  { "open-saved", "open-history", "open-drive", "open-messages",
    "show-settings", "about", "open-license", "import-data", "export-data",
    "login-external-webservice", "open-cookie-manager", "open-hosts-editor",
    "open-themes",
    "quit", "new-window",
    "open-privacy-policy", "open-documentation", "open-faq",
    "open-discussions", "report-issue", "search-issues", "web-session-help",
    "task-manager", "find" }

\* C7: routing `application-<command>` with <command> no entry of the
\* Application Action Table (matched by exact value) makes no call at all.
C7_UnknownCommandNoOp ==
  (last[1] = "menu-action"
     /\ IndexOf(last[2], "application-") = 0
     /\ Substr(last[2], Len("application-")) \notin TableCommands)
    => lastCalls = <<>>

C7_Witness ==
  /\ last[1] = "menu-action"
  /\ last[2] = "application-quitx"
  /\ lastCalls = <<>>

\* The forwarded commands of the specification.
SpecForwarded ==
  { "open-saved", "open-history", "open-drive", "open-messages",
    "show-settings", "about", "open-license", "import-data", "export-data",
    "login-external-webservice", "open-cookie-manager", "open-hosts-editor",
    "open-themes" }

\* C8: routing `application-<command>` for a forwarded command makes exactly
\* one call: a `command` event sent to the source window, with the command
\* name as payload; so no collaborator is called.
C8_ForwardedCommand ==
  \A c \in SpecForwarded, w \in WinIds :
    last = <<"menu-action", "application-" \o c, w>> =>
      lastCalls = << <<"win.webContents.send", w, "command", c>> >>

C8_Witness ==
  /\ last = <<"menu-action", "application-open-themes", "w2">>
  /\ lastCalls = << <<"win.webContents.send", "w2", "command",
                      "open-themes">> >>

FindEvent(w) == <<"menu-action", "application-find", w>>

\* The URL a find handler read from its window.
UrlRead(calls) == calls[1][3]

ShowsSearchUI(url) == IndexOf(url, "search-bar") # -1

\* C9: of two consecutive find actions on the same window, neither while
\* the window shows the search UI, the first, when the window has no search
\* service yet, constructs one and opens it, and in every case leaves
\* exactly one instance, open; the second calls focus() on it and
\* constructs and opens nothing, so that exactly one instance is left.
C9_FindTwice ==
  [][ \A w \in WinIds :
        ( /\ last = FindEvent(w) /\ ~ShowsSearchUI(UrlRead(lastCalls))
          /\ last' = FindEvent(w) /\ ~ShowsSearchUI(UrlRead(lastCalls')) )
        => /\ <<"ContentSearchService.getService", w, "none">>
                  \in Calls(lastCalls)
                => /\ <<"new ContentSearchService", w>> \in Calls(lastCalls)
                   /\ <<"srv.open", w>> \in Calls(lastCalls)
           /\ srv[w].count = 1
           /\ srv[w].opened
           /\ <<"srv.focus", w>> \in Calls(lastCalls')
           /\ <<"new ContentSearchService", w>> \notin Calls(lastCalls')
           /\ <<"srv.open", w>> \notin Calls(lastCalls')
           /\ srv'[w].count = 1 ]_vars

C9_Witness ==
  /\ last = FindEvent("w1")
  /\ repeated
  /\ <<"srv.focus", "w1">> \in Calls(lastCalls)
  /\ srv["w1"].count = 1

\* C10: a find action routed for a window whose URL contains `search-bar`
\* makes no Content Search Service call: the URL query is its only call.
C10_FindInSearchUI ==
  \A w \in WinIds :
    (last = FindEvent(w) /\ ShowsSearchUI(UrlRead(lastCalls)))
      => /\ Len(lastCalls) = 1
         /\ lastCalls[1][1] = "win.webContents.getURL"

C10_Witness ==
  /\ last = FindEvent("w1")
  /\ lastCalls = << <<"win.webContents.getURL", "w1",
                      "file:///app/search-bar.html">> >>

\* The text of an open-url URL after its scheme prefix `arc-file://`, and
\* the segments of that text.
Remainder(url) == SubSeq(url, Len("arc-file://") + 1, Len(url))

Segments(url) == Split(Remainder(url), "/")

\* The calls of `calls` on the window manager.
WmCalls(calls) == SelectSeq(calls, LAMBDA c : SubSeq(c[1], 1, 3) = "wm.")

\* C11: for an incoming URL arc-file://drive/<op>/<id> (three segments) the
\* open-url handler calls the window manager once: open with the path
\* /request/drive/<op>/<id>; for a URL whose first segment is not `drive`
\* (an empty remainder included) it calls no window-manager method.
C11_OpenUrlRouting ==
  last[1] = "open-url" =>
    LET url == last[2]
    IN  /\ (Len(Segments(url)) = 3 /\ Segments(url)[1] = "drive") =>
             WmCalls(lastCalls)
               = << <<"wm.open", "/request/" \o Remainder(url)>> >>
        /\ Segments(url)[1] # "drive" => WmCalls(lastCalls) = <<>>

C11_Witness ==
  /\ last = <<"open-url", "arc-file://drive/open/abc123">>
  /\ lastCalls = << <<"event.preventDefault">>,
                    <<"wm.open", "/request/drive/open/abc123">> >>

\* The segment text JavaScript concatenates for every missing segment.
Missing(n) == IF n = 1 THEN "/undefined" ELSE "/undefined/undefined"

\* C12: for a `drive` URL with fewer than three segments the open-url
\* handler completes, with the resource id absent, and still forwards one
\* navigation target to the window manager; the target is a function of the
\* URL alone: the remainder, each absent segment rendered as `undefined`.
C12_MalformedDriveUrl ==
  last[1] = "open-url" =>
    LET url == last[2]
        n == Len(Segments(url))
    IN  (Segments(url)[1] = "drive" /\ n < 3) =>
          /\ 3 \notin DOMAIN Segments(url)
          /\ WmCalls(lastCalls)
               = << <<"wm.open",
                      "/request/" \o Remainder(url) \o Missing(3 - n)>> >>

C12_Witness ==
  /\ last = <<"open-url", "arc-file://drive/open">>
  /\ lastCalls = << <<"event.preventDefault">>,
                    <<"wm.open", "/request/drive/open/undefined">> >>

\* C13: every open-url event has its default handling suppressed exactly
\* once, whatever its URL decodes to, and before any navigation: the
\* suppression is the handler's first call.
C13_PreventDefault ==
  last[1] = "open-url" =>
    /\ CountCalls(lastCalls, "event.preventDefault") = 1
    /\ lastCalls[1] = <<"event.preventDefault">>

C13_Witness ==
  /\ last = <<"open-url", "arc-file://unknown/x/y">>
  /\ lastCalls = << <<"event.preventDefault">> >>

\* The lifecycle phase: Constructed before the ready signal, ShuttingDown
\* once app.quit() was requested, Ready/Active between.
Phase ==
  IF quitting THEN "ShuttingDown"
  ELSE IF readyPc = "idle" THEN "Constructed"
  ELSE "ReadyOrActive"

\* C14: the lifecycle phase only moves forward: a step taken in ShuttingDown
\* stays there and opens no window, no step returns to Constructed, and a
\* step that ends in Constructed opens no window.
C14_PhaseForward ==
  [][ /\ Phase = "ShuttingDown" =>
           /\ Phase' = "ShuttingDown"
           /\ CountCalls(lastCalls', "wm.open") = 0
      /\ Phase' = "Constructed" =>
           /\ Phase = "Constructed"
           /\ CountCalls(lastCalls', "wm.open") = 0 ]_vars

\* Whether a startup argument contains the text `--inspect`.
HasInspectFlag(args) ==
  \E i \in DOMAIN args :
    \E k \in 1..(Len(args[i]) - Len("--inspect") + 1) :
      SubSeq(args[i], k, k + Len("--inspect") - 1) = "--inspect"

\* The calls of a completed ready sequence other than us.start() and the
\* logging of a failed preparation.
StepsButUpdateStart ==
  SelectSeq(readyCalls,
            LAMBDA c : c # <<"us.start">> /\ c[1] # "log.error")

\* C15: the ready sequence calls the update checker's start() iff no
\* startup argument contains `--inspect`, once, between opening the initial
\* window and menu build(); all its other calls, us.listen() among them,
\* are the same, in the same order, with the flag and without it.
C15_DebugGatesUpdateStart ==
  readyPc = "done" =>
    /\ (<<"us.start">> \in Calls(readyCalls)) <=> ~HasInspectFlag(argv)
    /\ CountCalls(readyCalls, "us.start") <= 1
    /\ \A i \in Pos(<<"us.start">>) :
         readyCalls[i - 1] = <<"wm.open">> /\ readyCalls[i + 1] = <<"menu.build">>
    /\ StepsButUpdateStart
         = << <<"defaults.prepareEnvironment">>, <<"ArcIdentity.listen">>,
              <<"wm.listen">>, <<"prompts.listen">>, <<"us.listen">>,
              <<"gdrive.listen">>, <<"wm.open">>, <<"menu.build">>,
              <<"sm.start">> >>

C15_Witness ==
  /\ readyPc = "done"
  /\ argv = <<"electron", ".", "--js-flags=--inspect">>
  /\ <<"us.start">> \notin Calls(readyCalls)
  /\ <<"us.listen">> \in Calls(readyCalls)

\* C16: when the last window closes the handler calls app.quit() iff the
\* platform is not `darwin`; on `darwin` it makes no call and changes no
\* state, so the application stays alive, and an activate signal that
\* follows opens exactly one window.
C16_AllClosed ==
  [][ /\ last' = <<"window-all-closed">> =>
           /\ platform # "darwin" =>
                lastCalls' = << <<"app.quit">> >> /\ quitting'
           /\ platform = "darwin" =>
                /\ lastCalls' = <<>>
                /\ UNCHANGED <<argv, platform, readyPc, prepResult,
                               readyCalls, srv, quitting>>
      /\ (last = <<"window-all-closed">> /\ platform = "darwin"
            /\ last' = <<"activate">>) =>
           /\ lastCalls' = << <<"wm.open">> >>
           /\ nWindows' = 1 ]_vars

C16_Witness ==
  /\ last = <<"window-all-closed">>
  /\ platform = "darwin"
  /\ lastCalls = <<>>
  /\ ~quitting
  /\ nWindows = 0

\* C17: routing `request-<suffix>` makes exactly one call: a
\* `request-action` event sent to the source window with payload <suffix>;
\* the suffix is not interpreted, so `request-quit`, `request-new-window`
\* and `request-find` quit nothing, open nothing and leave the search
\* services alone.
C17_RequestForwarded ==
  \A w \in WinIds :
    (last[1] = "menu-action" /\ last[3] = w
       /\ IndexOf(last[2], "request-") = 0)
      => /\ Len(lastCalls) = 1
         /\ Len(lastCalls[1]) = 4
         /\ SubSeq(lastCalls[1], 1, 3)
              = <<"win.webContents.send", w, "request-action">>
         /\ "request-" \o lastCalls[1][4] = last[2]

C17_Witness ==
  /\ last = <<"menu-action", "request-quit", "w2">>
  /\ lastCalls = << <<"win.webContents.send", "w2", "request-action",
                      "quit">> >>
  /\ ~quitting

\* The windows a sequence of calls names.
WindowsNamed(calls) == {calls[i][2] : i \in {j \in DOMAIN calls : Len(calls[j]) >= 2}}

\* C18: whatever find actions and search closes happened, every window has
\* at most one Content Search Service instance; a find for a window whose
\* instance exists and is not open (the window not showing the search UI)
\* opens it without constructing another; and a find on one window names
\* no other window in its calls and leaves the other windows' services as
\* they were.
C18_OneServicePerWindow ==
  [][ /\ \A w \in WinIds : srv[w].count <= 1 /\ srv'[w].count <= 1
      /\ \A w \in WinIds :
           last' = FindEvent(w) =>
             /\ ( /\ ~ShowsSearchUI(UrlRead(lastCalls'))
                  /\ srv[w].count = 1
                  /\ ~srv[w].opened )
                => /\ <<"srv.open", w>> \in Calls(lastCalls')
                   /\ <<"new ContentSearchService", w>>
                        \notin Calls(lastCalls')
                   /\ srv'[w] = [count |-> 1, opened |-> TRUE]
             /\ WindowsNamed(lastCalls') \subseteq {w}
             /\ \A v \in WinIds \ {w} : srv'[v] = srv[v] ]_vars

C18_Witness ==
  /\ last = FindEvent("w1")
  /\ <<"srv.isOpened", "w1", "false">> \in Calls(lastCalls)
  /\ <<"srv.open", "w1">> \in Calls(lastCalls)
  /\ srv["w1"] = [count |-> 1, opened |-> TRUE]
  /\ srv["w2"] = [count |-> 1, opened |-> TRUE]

\* C19: the window manager's open() is never called before the ready
\* sequence has called the window manager's listen(): a handler that calls
\* wm.open() runs when wm.listen() has been called.
C19_OpenAfterListen ==
  CountCalls(lastCalls, "wm.open") > 0
    => <<"wm.listen">> \in Calls(readyCalls)

====
